---- MODULE Spec2Model ----
(***************************************************************************)
(* sshc: lossless parser and serializer of ssh_config files.               *)
(*                                                                         *)
(* A Rust `str` is modelled as the sequence of its chars, each char being  *)
(* its Unicode scalar value.  Rust measures `len()` and slices `&s[a..]`   *)
(* in UTF-8 bytes while `chars()`, `skip`, `take` and `count` work in      *)
(* chars; the model keeps the two units apart, and a slice whose offset is *)
(* not a char boundary aborts (panics) as it does in Rust.                 *)
(***************************************************************************)
EXTENDS Integers, Sequences, FiniteSets

VARIABLES
    text,                   \* the input: a file's content, or one raw line
    path,                   \* Option<PathBuf> handed to parse_ssh_config
    pc,                     \* position in the read / write / read-again pipeline
    file,                   \* result of parse_ssh_config(text, path)
    out,                    \* result of to_string
    file2,                  \* result of parse_ssh_config(out, path)
    line,                   \* result of parse_line(text)
    content,                \* parse_expression: its argument
    epc,                    \* parse_expression: position
    keyword,                \* parse_expression: local `keyword`
    separator,              \* parse_expression: local `separator`
    remaining,              \* parse_arguments_expression: local `remaining`
    arguments_expression,   \* parse_arguments_expression: local vector
    expression              \* parse_expression: the value returned

pipeline_vars == <<text, path, pc, file, out, file2, line>>
expression_vars == <<content, epc, keyword, separator, remaining,
                     arguments_expression, expression>>
vars == <<text, path, pc, file, out, file2, line, content, epc, keyword,
          separator, remaining, arguments_expression, expression>>

(***************************************************************************)
(* Bounds of the model.                                                    *)
(***************************************************************************)
MaxLen == 4
MaxArgLen == 5

(***************************************************************************)
(* Characters the code names, and representatives of the character classes *)
(* it distinguishes.                                                       *)
(***************************************************************************)
NL == 10
CR == 13
QUOTE == 34
HASH == 35
EQUALS == 61
BACKSLASH == 92
NUL == 0
SPACE == 32
DIGIT_0 == 48
LATIN_A == 97
LATIN_E_ACUTE == 233
NBSP == 160

Min(S) == CHOOSE x \in S : \A y \in S : x <= y

(* char::is_whitespace: the Unicode White_Space property. *)
is_whitespace(c) ==
    \/ c \in 9..13
    \/ c \in {32, 133, 160, 5760, 8232, 8233, 8239, 8287, 12288}
    \/ c \in 8192..8202

(* char::is_alphabetic, exact for the code points below U+0100. *)
is_alphabetic(c) ==
    \/ c \in 65..90
    \/ c \in 97..122
    \/ c \in {170, 181, 186}
    \/ c \in 192..214
    \/ c \in 216..246
    \/ c \in 248..255

(* char::len_utf8: the bytes a char takes in a str. *)
len_utf8(c) ==
    IF c < 128 THEN 1 ELSE IF c < 2048 THEN 2 ELSE IF c < 65536 THEN 3 ELSE 4

(* str::len: the length in bytes. *)
RECURSIVE str_len(_)
str_len(s) ==
    IF s = <<>> THEN 0 ELSE len_utf8(Head(s)) + str_len(Tail(s))

(* str::is_char_boundary. *)
is_char_boundary(s, b) ==
    \E k \in 0..Len(s) : str_len(SubSeq(s, 1, k)) = b

(* &s[b..] for a byte offset b that is a char boundary. *)
str_from(s, b) ==
    LET k == CHOOSE k \in 0..Len(s) : str_len(SubSeq(s, 1, k)) = b
    IN  SubSeq(s, k + 1, Len(s))

(* Iterator::skip(n) over chars(). *)
skip(s, n) == SubSeq(s, n + 1, Len(s))

(* chars().take_while(is_whitespace), as a number of chars. *)
RECURSIVE whitespace_run(_)
whitespace_run(s) ==
    IF s # <<>> /\ is_whitespace(Head(s)) THEN 1 + whitespace_run(Tail(s)) ELSE 0

(* chars().take_while(!is_whitespace), as a number of chars. *)
RECURSIVE non_whitespace_run(_)
non_whitespace_run(s) ==
    IF s # <<>> /\ ~is_whitespace(Head(s))
    THEN 1 + non_whitespace_run(Tail(s)) ELSE 0

(* chars().take_while(is_alphabetic), as a number of chars. *)
RECURSIVE alphabetic_run(_)
alphabetic_run(s) ==
    IF s # <<>> /\ is_alphabetic(Head(s)) THEN 1 + alphabetic_run(Tail(s)) ELSE 0

(* chars().take_while(|c| c.is_whitespace() || c == '='), in chars. *)
RECURSIVE separator_run(_)
separator_run(s) ==
    IF s # <<>> /\ (is_whitespace(Head(s)) \/ Head(s) = EQUALS)
    THEN 1 + separator_run(Tail(s)) ELSE 0

(* chars().rev().take_while(is_whitespace).count(). *)
RECURSIVE trailing_whitespace_run(_)
trailing_whitespace_run(s) ==
    IF s # <<>> /\ is_whitespace(s[Len(s)])
    THEN 1 + trailing_whitespace_run(SubSeq(s, 1, Len(s) - 1)) ELSE 0

(* str::trim. *)
trim(s) ==
    LET a == whitespace_run(s)
        t == skip(s, a)
    IN  SubSeq(t, 1, Len(t) - trailing_whitespace_run(t))

(* str::trim_end_matches(['\n', '\r']). *)
RECURSIVE trim_end_matches(_)
trim_end_matches(s) ==
    IF s # <<>> /\ s[Len(s)] \in {NL, CR}
    THEN trim_end_matches(SubSeq(s, 1, Len(s) - 1)) ELSE s

(* str::lines: split after every '\n'; a line loses its '\n' and then one
   '\r' before it; what follows the last '\n' is a line unless it is empty. *)
RECURSIVE lines(_)
lines(s) ==
    IF s = <<>> THEN <<>>
    ELSE LET nl == {i \in 1..Len(s) : s[i] = NL}
         IN  IF nl = {} THEN <<s>>
             ELSE LET k == Min(nl)
                      l == SubSeq(s, 1, k - 1)
                      stripped == IF l # <<>> /\ l[Len(l)] = CR
                                  THEN SubSeq(l, 1, Len(l) - 1) ELSE l
                  IN  <<stripped>> \o lines(skip(s, k))

(***************************************************************************)
(* The document model (path.rs).                                           *)
(***************************************************************************)
Pure(value) == [type |-> "Pure", value |-> value]
Quoted(value) == [type |-> "Quoted", value |-> value]
Whitespace(value) == [type |-> "Whitespace", value |-> value]

ConfigurationOptions(k, s, a) ==
    [type |-> "ConfigurationOptions", keyword |-> k, separator |-> s,
     arguments_expression |-> a]
Comment(comment) == [type |-> "Comment", text |-> comment]
Empty == [type |-> "Empty"]
Malformed(malformed) == [type |-> "Malformed", text |-> malformed]

Line(p, e, s) ==
    [type |-> "Line", indent_prefix |-> p, expression |-> e, indent_suffix |-> s]
File(l, p) == [type |-> "File", lines |-> l, path |-> p]

(* Option: None, Some(v). *)
None == <<>>
Some(v) == <<v>>

(* The outcome of a call that aborted (panic!). *)
Panicked == [type |-> "panic"]
(* A variable not assigned yet. *)
Unset == [type |-> "unset"]

(***************************************************************************)
(* Serialization (path.rs, the Display implementations).                   *)
(***************************************************************************)
ArgumentToken_to_string(t) ==
    IF t.type = "Quoted" THEN <<QUOTE>> \o t.value \o <<QUOTE>> ELSE t.value

RECURSIVE join_tokens(_)
join_tokens(tokens) ==
    IF tokens = <<>> THEN <<>>
    ELSE ArgumentToken_to_string(Head(tokens)) \o join_tokens(Tail(tokens))

Expression_to_string(e) ==
    CASE e.type = "ConfigurationOptions" ->
            e.keyword \o e.separator \o join_tokens(e.arguments_expression)
      [] e.type = "Comment" -> e.text
      [] e.type = "Empty" -> <<>>
      [] e.type = "Malformed" -> e.text

Line_to_string(l) ==
    l.indent_prefix \o Expression_to_string(l.expression) \o l.indent_suffix
        \o <<NL>>

RECURSIVE join_lines(_)
join_lines(ls) ==
    IF ls = <<>> THEN <<>> ELSE Line_to_string(Head(ls)) \o join_lines(Tail(ls))

File_to_string(f) == join_lines(f.lines)

(***************************************************************************)
(* The argument tokenizer (file.rs, parse_arguments_expression).           *)
(***************************************************************************)

(* The scan for the closing quote over `remaining.chars().skip(1)`: s is
   what is left to scan, prev the char scanned last, token_size the chars
   scanned so far. *)
(* quoted_scan without the lookback: the token ends at the first '"'. *)
RECURSIVE quoted_scan_no_lookback(_, _, _)
quoted_scan_no_lookback(s, prev, token_size) ==
    IF s = <<>> THEN [found_end_quote |-> FALSE, token_size |-> token_size]
    ELSE IF Head(s) = QUOTE
         THEN [found_end_quote |-> TRUE, token_size |-> token_size]
         ELSE quoted_scan_no_lookback(Tail(s), Head(s), token_size + 1)

RECURSIVE quoted_scan(_, _, _)
quoted_scan(s, prev, token_size) ==
    IF s = <<>> THEN [found_end_quote |-> FALSE, token_size |-> token_size]
    ELSE IF prev # BACKSLASH /\ Head(s) = QUOTE
         THEN [found_end_quote |-> TRUE, token_size |-> token_size]
         ELSE quoted_scan(Tail(s), Head(s), token_size + 1)

(* One pass of the `while !remaining.is_empty()` loop; rem is not empty.
   failed: the pass returned None. *)
tokenize_step(rem, acc) ==
    IF is_whitespace(rem[1])
    THEN LET argument == SubSeq(rem, 1, whitespace_run(rem))
         IN  [failed |-> FALSE,
              remaining |-> str_from(rem, str_len(argument)),
              arguments_expression |-> Append(acc, Whitespace(argument))]
    ELSE IF rem[1] = QUOTE
    THEN LET scan == quoted_scan(skip(rem, 1), NUL, 0)
             argument == SubSeq(skip(rem, 1), 1, scan.token_size)
         IN  IF scan.found_end_quote
             THEN [failed |-> FALSE,
                   remaining |-> str_from(rem, 1 + str_len(argument) + 1),
                   arguments_expression |-> Append(acc, Quoted(argument))]
             ELSE [failed |-> TRUE, remaining |-> rem,
                   arguments_expression |-> acc]
    ELSE LET argument == SubSeq(rem, 1, non_whitespace_run(rem))
         IN  IF \E i \in 1..Len(argument) : argument[i] = HASH
             THEN [failed |-> TRUE, remaining |-> rem,
                   arguments_expression |-> acc]
             ELSE [failed |-> FALSE,
                   remaining |-> str_from(rem, str_len(argument)),
                   arguments_expression |-> Append(acc, Pure(argument))]

(* What follows the loop: no token at all is None. *)
arguments_result(acc) == IF acc = <<>> THEN None ELSE Some(acc)

RECURSIVE arguments_loop(_, _)
arguments_loop(rem, acc) ==
    IF rem = <<>> THEN arguments_result(acc)
    ELSE LET step == tokenize_step(rem, acc)
         IN  IF step.failed THEN None
             ELSE arguments_loop(step.remaining, step.arguments_expression)

parse_arguments_expression(c) == arguments_loop(c, <<>>)

(***************************************************************************)
(* The expression classifier (file.rs, parse_expression).                  *)
(***************************************************************************)

(* `keyword`: the leading alphabetic chars. *)
keyword_of(c) == SubSeq(c, 1, alphabetic_run(c))

(* `separator`: chars().skip(keyword.len()) skips as many CHARS as the
   keyword has BYTES, then takes the run of whitespace and '='. *)
separator_of(c, k) ==
    LET after == skip(c, str_len(k))
    IN  SubSeq(after, 1, separator_run(after))

separator_valid(s) == s # <<>> /\ (trim(s) = <<>> \/ trim(s) = <<EQUALS>>)

(* parse_expression up to the call of the tokenizer: either it returns
   (done), or it hands `arguments` to the tokenizer.  The slice
   content[(keyword.len() + separator.len())..] is by bytes. *)
expression_head(c) ==
    IF c = <<>> THEN [done |-> TRUE, expression |-> Empty]
    ELSE IF c[1] = HASH THEN [done |-> TRUE, expression |-> Comment(c)]
    ELSE LET k == keyword_of(c)
             s == separator_of(c, k)
             offset == str_len(k) + str_len(s)
         IN  IF k = <<>> THEN [done |-> TRUE, expression |-> Malformed(c)]
             ELSE IF ~separator_valid(s)
             THEN [done |-> TRUE, expression |-> Malformed(c)]
             ELSE IF ~is_char_boundary(c, offset)
             THEN [done |-> TRUE, expression |-> Panicked]
             ELSE [done |-> FALSE, keyword |-> k, separator |-> s,
                   arguments |-> trim(str_from(c, offset))]

(* parse_expression after the tokenizer returned `result`. *)
expression_return(c, k, s, result) ==
    IF result # None THEN ConfigurationOptions(k, s, result[1])
    ELSE Malformed(c)

parse_expression(c) ==
    LET h == expression_head(c)
    IN  IF h.done THEN h.expression
        ELSE expression_return(c, h.keyword, h.separator,
                               parse_arguments_expression(h.arguments))

(***************************************************************************)
(* The line segmenter and the file parser (file.rs).                       *)
(***************************************************************************)
parse_line(l) ==
    LET c == trim_end_matches(l)
        prefix_len == whitespace_run(c)
        \* take_while on it.by_ref() also consumes the first char it rejects
        rest == skip(c, prefix_len + 1)
        indent_suffix_len == trailing_whitespace_run(rest)
        offset == str_len(c) - indent_suffix_len
        e == parse_expression(trim(l))
    IN  IF \E i \in 1..Len(c) : c[i] = NL THEN Panicked
        ELSE IF ~is_char_boundary(c, offset) THEN Panicked
        ELSE IF e = Panicked THEN Panicked
        ELSE Line(SubSeq(c, 1, prefix_len), e, str_from(c, offset))

parse_ssh_config(c, p) ==
    LET ls == lines(c)
        parsed == [i \in 1..Len(ls) |-> parse_line(ls[i])]
    IN  IF \E i \in 1..Len(ls) : parsed[i] = Panicked THEN Panicked
        ELSE File(parsed, p)

(***************************************************************************)
(* Inputs.                                                                 *)
(***************************************************************************)
Strings(A, n) == UNION {[1..k -> A] : k \in 0..n}

Alphabet ==
    {LATIN_A, LATIN_E_ACUTE, DIGIT_0, SPACE, NBSP, NL, CR, EQUALS, HASH, QUOTE}

ArgumentAlphabet == {LATIN_A, LATIN_E_ACUTE, SPACE, QUOTE, BACKSLASH, HASH}

Paths == {None, Some("config")}

(* Trimmed line contents `a<separator><arguments>`. *)
ArgumentLines ==
    {<<LATIN_A>> \o sep \o a :
        sep \in {<<SPACE>>, <<EQUALS>>},
        a \in {s \in Strings(ArgumentAlphabet, MaxArgLen) : trim(s) = s}}

(***************************************************************************)
(* The read / write / read-again pipeline, and parse_line on a raw line.   *)
(***************************************************************************)
Init ==
    /\ text \in Strings(Alphabet, MaxLen)
    /\ path \in Paths
    /\ pc = "start"
    /\ file = Unset /\ file2 = Unset /\ line = Unset
    /\ out = <<>>
    /\ content = <<>> /\ epc = "idle" /\ keyword = <<>> /\ separator = <<>>
    /\ remaining = <<>> /\ arguments_expression = <<>> /\ expression = Unset

(* read_ssh_config / parse_ssh_config on the content. *)
ParseSshConfig ==
    /\ pc = "start"
    /\ file' = parse_ssh_config(text, path)
    /\ pc' = IF file' = Panicked THEN "parse_panicked" ELSE "parsed"
    /\ UNCHANGED <<text, path, out, file2, line>>
    /\ UNCHANGED expression_vars

(* write_ssh_config: file.to_string(). *)
WriteSshConfig ==
    /\ pc = "parsed"
    /\ out' = File_to_string(file)
    /\ pc' = "written"
    /\ UNCHANGED <<text, path, file, file2, line>>
    /\ UNCHANGED expression_vars

(* read_ssh_config of what was written. *)
ReadAgain ==
    /\ pc = "written"
    /\ file2' = parse_ssh_config(out, path)
    /\ pc' = IF file2' = Panicked THEN "reparse_panicked" ELSE "reparsed"
    /\ UNCHANGED <<text, path, file, out, line>>
    /\ UNCHANGED expression_vars

(* parse_line on the text taken as one raw line (as the tests call it). *)
ParseLine ==
    /\ pc = "start"
    /\ line' = parse_line(text)
    /\ pc' = IF line' = Panicked THEN "line_panicked" ELSE "line"
    /\ UNCHANGED <<text, path, file, out, file2>>
    /\ UNCHANGED expression_vars

(* actual.to_string() of a Line. *)
LineToString ==
    /\ pc = "line"
    /\ out' = Line_to_string(line)
    /\ pc' = "line_written"
    /\ UNCHANGED <<text, path, file, file2, line>>
    /\ UNCHANGED expression_vars

Next ==
    \/ ParseSshConfig
    \/ WriteSshConfig
    \/ ReadAgain
    \/ ParseLine
    \/ LineToString

Spec == Init /\ [][Next]_vars

(***************************************************************************)
(* parse_expression run step by step on a trimmed line content.            *)
(***************************************************************************)
InitExpression ==
    /\ content \in ArgumentLines
    /\ epc = "start"
    /\ keyword = <<>> /\ separator = <<>>
    /\ remaining = <<>> /\ arguments_expression = <<>> /\ expression = Unset
    /\ text = <<>> /\ path = None /\ pc = "idle"
    /\ file = Unset /\ file2 = Unset /\ line = Unset /\ out = <<>>

(* Lines 39-61: empty, comment, keyword, separator, the arguments slice. *)
ExpressionStart ==
    /\ epc = "start"
    /\ LET h == expression_head(content)
       IN  IF h.done
           THEN /\ expression' = h.expression
                /\ epc' = "returned"
                /\ UNCHANGED <<keyword, separator, remaining>>
           ELSE /\ keyword' = h.keyword
                /\ separator' = h.separator
                /\ remaining' = h.arguments
                /\ epc' = "loop"
                /\ UNCHANGED expression
    /\ UNCHANGED <<content, arguments_expression>>
    /\ UNCHANGED pipeline_vars

(* One pass of the tokenizer's loop. *)
TokenizeStep ==
    /\ epc = "loop"
    /\ remaining # <<>>
    /\ LET step == tokenize_step(remaining, arguments_expression)
       IN  /\ remaining' = step.remaining
           /\ arguments_expression' = step.arguments_expression
           /\ epc' = IF step.failed THEN "none" ELSE "loop"
    /\ UNCHANGED <<content, keyword, separator, expression>>
    /\ UNCHANGED pipeline_vars

(* The loop ended: Some(tokens), or None when there is no token. *)
TokenizeEnd ==
    /\ epc = "loop"
    /\ remaining = <<>>
    /\ epc' = IF arguments_result(arguments_expression) = None
              THEN "none" ELSE "some"
    /\ UNCHANGED <<content, keyword, separator, remaining,
                   arguments_expression, expression>>
    /\ UNCHANGED pipeline_vars

(* Lines 60-70: the tokenizer's result becomes the expression. *)
ExpressionReturn ==
    /\ epc \in {"none", "some"}
    /\ expression' =
          expression_return(content, keyword, separator,
              IF epc = "some" THEN Some(arguments_expression) ELSE None)
    /\ epc' = "returned"
    /\ UNCHANGED <<content, keyword, separator, remaining,
                   arguments_expression>>
    /\ UNCHANGED pipeline_vars

NextExpression ==
    \/ ExpressionStart
    \/ TokenizeStep
    \/ TokenizeEnd
    \/ ExpressionReturn

SpecExpression == InitExpression /\ [][NextExpression]_vars

(***************************************************************************)
(* Properties.                                                             *)
(***************************************************************************)
Contains(s, c) == \E i \in 1..Len(s) : s[i] = c
Last(s) == s[Len(s)]

(* Every line of t ends with a bare '\n' (not "\r\n"). *)
LfTerminated(t) ==
    /\ t = <<>> \/ Last(t) = NL
    /\ \A i \in 1..(Len(t) - 1) : ~(t[i] = CR /\ t[i + 1] = NL)

(* C1, round-trip law: for every text whose lines all end with '\n',
   parse_ssh_config returns a File and its serialization is the text. *)
RoundTripLaw ==
    LfTerminated(text) =>
        /\ pc # "parse_panicked"
        /\ pc = "written" => out = text

(* C2, idempotence: for every text, parsing the serialization of the parsed
   File returns a File with the same lines. *)
Idempotence ==
    /\ pc # "reparse_panicked"
    /\ pc = "reparsed" => file2.lines = file.lines

(* C3, totality: parse_ssh_config returns a File for every input string; it
   never aborts. *)
Totality == pc # "parse_panicked"

(* The classification C4 states, of a trimmed line content c. *)
ClaimedKeyword(c) == SubSeq(c, 1, alphabetic_run(c))
ClaimedSeparator(c) ==
    LET after == skip(c, Len(ClaimedKeyword(c)))
    IN  SubSeq(after, 1, separator_run(after))
ClaimedRemainder(c) ==
    skip(c, Len(ClaimedKeyword(c)) + Len(ClaimedSeparator(c)))
ClaimedSeparatorValid(s) ==
    /\ s # <<>>
    /\ \/ \A i \in 1..Len(s) : is_whitespace(s[i])
       \/ Cardinality({i \in 1..Len(s) : s[i] = EQUALS}) = 1
ClaimedExpression(c) ==
    IF c = <<>> THEN Empty
    ELSE IF c[1] = HASH THEN Comment(c)
    ELSE IF /\ ClaimedKeyword(c) # <<>>
            /\ ClaimedSeparatorValid(ClaimedSeparator(c))
            /\ parse_arguments_expression(ClaimedRemainder(c)) # None
    THEN ConfigurationOptions(ClaimedKeyword(c), ClaimedSeparator(c),
             parse_arguments_expression(ClaimedRemainder(c))[1])
    ELSE Malformed(c)

(* C4, classification: the expression of a parsed line is Empty, Comment,
   ConfigurationOptions (maximal alphabetic keyword, the maximal run of
   whitespace and '=' right after it, valid, and an accepted remainder) or
   Malformed with the whole trimmed content, exactly in the cases stated. *)
Classification ==
    pc = "line" => line.expression = ClaimedExpression(trim(text))

(* C5, trailing empty line: the File of a '\n'-terminated content ends with
   an Empty line that comes after the lines of the text. *)
TrailingEmptyLine ==
    (pc = "parsed" /\ text # <<>> /\ Last(text) = NL) =>
        /\ Len(file.lines) =
              Cardinality({i \in 1..Len(text) : text[i] = NL}) + 1
        /\ Last(file.lines).expression = Empty

(* C6, caller contract: parse_line aborts exactly when its input, the
   trailing line terminator stripped (as the code strips it: every trailing
   '\n' and '\r'), still contains a newline. *)
CallerContractFatal ==
    pc \in {"line", "line_panicked"} =>
        (pc = "line_panicked" <=> Contains(trim_end_matches(text), NL))

(* C7, line segmentation: for a single physical line, indent_prefix is the
   leading whitespace run of the stripped content, indent_suffix the
   trailing whitespace run of what follows the prefix, the expression is
   the classification of the text between them, and the three put together
   are the stripped content. *)
LineSegmentation ==
    (pc \in {"line", "line_panicked"} /\ ~Contains(trim_end_matches(text), NL)) =>
        /\ pc = "line"
        /\ LET c == trim_end_matches(text)
               p == SubSeq(c, 1, whitespace_run(c))
               r == skip(c, Len(p))
               n == trailing_whitespace_run(r)
               mid == SubSeq(r, 1, Len(r) - n)
               s == skip(r, Len(r) - n)
           IN  /\ line.indent_prefix = p
               /\ line.indent_suffix = s
               /\ line.expression = parse_expression(mid)
               /\ p \o Expression_to_string(line.expression) \o s = c

IsValue(t) == t.type \in {"Pure", "Quoted"}

(* C8, shape of the arguments: not empty, with a value token, and value and
   whitespace tokens alternate strictly. *)
ArgumentsShape ==
    (epc = "returned" /\ expression.type = "ConfigurationOptions") =>
        LET a == expression.arguments_expression
        IN  /\ a # <<>>
            /\ \E i \in 1..Len(a) : IsValue(a[i])
            /\ \A i \in 1..(Len(a) - 1) : IsValue(a[i]) # IsValue(a[i + 1])

(* C9, content of Pure tokens: no whitespace, no '"' and no '#' in a Pure
   token; a line with '#' in an unquoted argument is Malformed as a whole. *)
PureTokenContent ==
    /\ (epc = "returned" /\ expression.type = "ConfigurationOptions") =>
          \A i \in 1..Len(expression.arguments_expression) :
              LET t == expression.arguments_expression[i]
              IN  t.type = "Pure" =>
                    \A j \in 1..Len(t.value) :
                        /\ ~is_whitespace(t.value[j])
                        /\ t.value[j] # QUOTE
                        /\ t.value[j] # HASH
    /\ (epc = "returned" /\ Contains(content, HASH) /\ ~Contains(content, QUOTE)
           /\ content[1] # HASH) =>
          expression = Malformed(content)

(* The closing quotes of `remaining`, which starts with '"': the later '"'
   whose preceding char is no backslash. *)
ClosingQuotes(rem) ==
    {j \in 2..Len(rem) : rem[j] = QUOTE /\ rem[j - 1] # BACKSLASH}

(* C10, quoted argument scanning: when `remaining` starts with '"', the
   pass ends the token at the first later '"' that no backslash precedes,
   pushes Quoted(the raw text between the quotes) and resumes right after
   the closing quote; with no such quote the tokenizer returns None, and a
   None makes the whole content Malformed. *)
QuotedScanning ==
    [][/\ (epc = "loop" /\ remaining # <<>> /\ remaining[1] = QUOTE) =>
            IF ClosingQuotes(remaining) = {}
            THEN epc' = "none"
            ELSE LET q == Min(ClosingQuotes(remaining))
                 IN  /\ epc' = "loop"
                     /\ arguments_expression' =
                           Append(arguments_expression,
                                  Quoted(SubSeq(remaining, 2, q - 1)))
                     /\ remaining' = SubSeq(remaining, q + 1, Len(remaining))
       /\ (epc = "none" /\ epc' = "returned") =>
            expression' = Malformed(content)
      ]_vars

(* A Quoted token holding an escaped quote (backslash, '"') verbatim has
   been pushed, and the tokenizer went on to push the token after it. *)
QuotedScanningWitness ==
    /\ epc = "returned"
    /\ expression.type = "ConfigurationOptions"
    /\ \E i \in 1..(Len(expression.arguments_expression) - 1) :
          LET t == expression.arguments_expression[i]
          IN  /\ t.type = "Quoted"
              /\ \E j \in 1..(Len(t.value) - 1) :
                    t.value[j] = BACKSLASH /\ t.value[j + 1] = QUOTE

====
